---- MODULE Spec2Model ----
(***************************************************************************)
(* Three-statement financial forecast (P&L -> Balance Sheet -> Cash Flow)  *)
(* and the Streamlit script of main.py that chains the three sections      *)
(* through st.session_state.                                               *)
(*                                                                         *)
(* Amounts are fixed-point integers in units of 1/Scale, rates (slider     *)
(* values already divided by 100 by the code) are integers in units of     *)
(* 1/RateScale.  Sums and differences are exact; a product amount*rate is  *)
(* Mul, which is exact for every assumption value enumerated below.        *)
(***************************************************************************)
EXTENDS Integers, Sequences, FiniteSets, TLC

\* one amount unit is 1/Scale of a currency unit (1333.52 -> 133352000)
Scale == 100000
\* one rate unit is 1/RateScale (15% -> 150, 0.5% -> 5)
RateScale == 1000

\* amount * rate, split so that no intermediate exceeds 32 bits
Mul(x, r) == (x \div RateScale) * r + ((x % RateScale) * r) \div RateScale

\* period 0 is the historical year 2023A, 1..3 are 2024E, 2025E, 2026E
Periods == 0..3
ForecastPeriods == 1..3

\* an empty session-state slot / a section that returned no table
None == [none |-> TRUE]

(***************************************************************************)
(* profit_loss.py                                                          *)
(***************************************************************************)
historical_data ==
    [Revenue |-> 1000 * Scale,
     Cost |-> 600 * Scale,
     GrossProfit |-> 400 * Scale,
     SellingExpense |-> 100 * Scale,
     AdminExpense |-> 80 * Scale,
     FinancialExpense |-> 20 * Scale,
     NetProfit |-> 200 * Scale]

\* revenues.append(revenues[-1] * (1 + growth_rate))
NextRevenue_skipGrowth(last, growth_rate) == Mul(last, RateScale)
NextRevenue(last, growth_rate) == Mul(last, RateScale + growth_rate)

\* rev - cost - sales - mgmt - fin
OperatingProfit_dropFinancial(rev, cost, sales, mgmt, fin) == rev - cost - sales - mgmt
OperatingProfit(rev, cost, sales, mgmt, fin) == rev - cost - sales - mgmt - fin

\* the table built when "Generate P&L Forecast" is pressed; a holds the
\* slider values of the three forecast years, indexed 1..3
ProfitLossForecast(a) ==
    LET revenues[i \in Periods] ==
            IF i = 0 THEN historical_data.Revenue
            ELSE NextRevenue(revenues[i - 1], a.revenue_growth_rates[i])
        costs == [i \in Periods |->
            IF i = 0 THEN historical_data.Cost
            ELSE Mul(revenues[i], a.cost_ratios[i])]
        gross_profits == [i \in Periods |-> revenues[i] - costs[i]]
        sales_expenses == [i \in Periods |->
            IF i = 0 THEN historical_data.SellingExpense
            ELSE Mul(revenues[i], a.sales_expense_ratios[i])]
        management_expenses == [i \in Periods |->
            IF i = 0 THEN historical_data.AdminExpense
            ELSE Mul(revenues[i], a.management_expense_ratios[i])]
        financial_expenses == [i \in Periods |->
            IF i = 0 THEN historical_data.FinancialExpense
            ELSE Mul(revenues[i], a.financial_expense_ratios[i])]
        operating_profits == [i \in Periods |->
            OperatingProfit(revenues[i], costs[i], sales_expenses[i],
                            management_expenses[i], financial_expenses[i])]
    IN  [Revenue |-> revenues,
         Cost |-> costs,
         GrossProfit |-> gross_profits,
         SellingExpense |-> sales_expenses,
         AdminExpense |-> management_expenses,
         FinancialExpense |-> financial_expenses,
         NetProfit |-> operating_profits]

(***************************************************************************)
(* balance_sheet.py                                                        *)
(***************************************************************************)
historical_bs ==
    [Cash |-> 1260 * Scale,
     AccountsReceivable |-> 110 * Scale,
     Prepayments |-> 6 * Scale,
     FixedAssets |-> 16 * Scale,
     TotalAssets |-> 1392 * Scale,
     AccountsPayable |-> 120 * Scale,
     Advances |-> 10 * Scale,
     TotalLiabilities |-> 130 * Scale,
     ShareCapital |-> 1333 * Scale + 52 * (Scale \div 100),
     RetainedEarnings |-> 0 - (71 * Scale + 52 * (Scale \div 100)),
     TotalEquity |-> 1262 * Scale,
     TotalLiabEquity |-> 1392 * Scale]

\* retained_earnings = forecast_data["Retained Earnings(M)"][-1] + net_profits[i]
RetainedEarningsNext_priorProfit(last, net_profits, i) == last + net_profits[i - 1]
RetainedEarningsNext(last, net_profits, i) == last + net_profits[i]

\* total_liab_equity = total_liabilities + total_equity
TotalLiabEquity_equityOnly(total_liabilities, total_equity) == total_equity
TotalLiabEquity(total_liabilities, total_equity) == total_liabilities + total_equity

\* other_assets = receivables + prepayments + fixed_assets
OtherAssets_noFixed(receivables, prepayments, fixed_assets) == receivables + prepayments
OtherAssets(receivables, prepayments, fixed_assets) ==
    receivables + prepayments + fixed_assets

\* cash = total_liab_equity - other_assets
BalancingCash_ignoresOtherAssets(total_liab_equity, other_assets) ==
    total_liab_equity
BalancingCash(total_liab_equity, other_assets) == total_liab_equity - other_assets

\* one pass of the loop "for i in range(1, 4)": the column of year i from
\* the P&L rows and the previous column prev
\* fixed_assets = forecast_data["Fixed Assets(I)"][-1] * (1 + fixed_asset_growth)
FixedAssetsNext_flat(last, fixed_asset_growth) == last
FixedAssetsNext(last, fixed_asset_growth) ==
    Mul(last, RateScale + fixed_asset_growth)

\* capital = forecast_data["Share Capital(L)"][-1]
\*           + (capital_increase if i == 1 else 0)
ShareCapitalNext_everyYear(last, capital_increase, i) == last + capital_increase
ShareCapitalNext(last, capital_increase, i) ==
    last + (IF i = 1 THEN capital_increase ELSE 0)

ForecastColumn(prev, revenues, costs, net_profits, b, i) ==
    LET receivables == Mul(revenues[i], b.receivables_ratio)
        prepayments == Mul(costs[i], b.prepayment_ratio)
        fixed_assets == FixedAssetsNext(prev.FixedAssets, b.fixed_asset_growth)
        payables == Mul(costs[i], b.payables_ratio)
        advances == Mul(revenues[i], b.advance_ratio)
        total_liabilities == payables + advances
        capital == ShareCapitalNext(prev.ShareCapital, b.capital_increase, i)
        retained_earnings ==
            RetainedEarningsNext(prev.RetainedEarnings, net_profits, i)
        total_equity == capital + retained_earnings
        total_liab_equity == TotalLiabEquity(total_liabilities, total_equity)
        other_assets == OtherAssets(receivables, prepayments, fixed_assets)
        cash == BalancingCash(total_liab_equity, other_assets)
    IN  [Cash |-> cash,
         AccountsReceivable |-> receivables,
         Prepayments |-> prepayments,
         FixedAssets |-> fixed_assets,
         TotalAssets |-> total_liab_equity,
         AccountsPayable |-> payables,
         Advances |-> advances,
         TotalLiabilities |-> total_liabilities,
         ShareCapital |-> capital,
         RetainedEarnings |-> retained_earnings,
         TotalEquity |-> total_equity,
         TotalLiabEquity |-> total_liab_equity]

BalanceSheetRows == DOMAIN historical_bs

\* the table built when "Generate Balance Sheet Forecast" is pressed
BalanceSheetForecast(pl_df, b) ==
    LET revenues == pl_df.Revenue
        costs == pl_df.Cost
        net_profits == pl_df.NetProfit
        \* forecast_data after each pass of the loop, one column per year
        column_2024E == ForecastColumn(historical_bs, revenues, costs, net_profits, b, 1)
        column_2025E == ForecastColumn(column_2024E, revenues, costs, net_profits, b, 2)
        column_2026E == ForecastColumn(column_2025E, revenues, costs, net_profits, b, 3)
        forecast_data == <<column_2024E, column_2025E, column_2026E>>
    IN  [k \in BalanceSheetRows |->
            [i \in Periods |-> IF i = 0 THEN historical_bs[k] ELSE forecast_data[i][k]]]

(***************************************************************************)
(* cash_flow.py                                                            *)
(***************************************************************************)
\* np.diff(values): element j (0-based) is values[j + 1] - values[j]
Diff_lookahead(values) ==
    [j \in 0..2 |-> IF j < 2 THEN values[j + 2] - values[j + 1]
                    ELSE values[j + 1] - values[j]]
Diff(values) == [j \in 0..2 |-> values[j + 1] - values[j]]

\* operating_cash_flows.append(net_profits[0] + depreciation[0])
FirstYearOperatingCF_noDepreciation(net_profits, depreciation) == net_profits[0]
FirstYearOperatingCF(net_profits, depreciation) == net_profits[0] + depreciation[0]

\* investing_cf = -(fixed_assets[i] - fixed_assets[i - 1] + depreciation[i])
InvestingCF_noDepreciation(fixed_assets, depreciation, i) ==
    0 - (fixed_assets[i] - fixed_assets[i - 1])
InvestingCF(fixed_assets, depreciation, i) ==
    0 - (fixed_assets[i] - fixed_assets[i - 1] + depreciation[i])

\* op + inv + fin
NetCashFlow_noFinancing(op, inv, fin) == op + inv
NetCashFlow(op, inv, fin) == op + inv + fin

\* the table built when "Generate Cash Flow Forecast" is pressed
CashFlowForecast(pl_df, bs_df, depreciation_rate) ==
    LET net_profits == pl_df.NetProfit
        fixed_assets == bs_df.FixedAssets
        receivables == bs_df.AccountsReceivable
        prepayments == bs_df.Prepayments
        payables == bs_df.AccountsPayable
        advances == bs_df.Advances
        capital_changes == Diff(bs_df.ShareCapital)
        depreciation == [i \in Periods |-> Mul(fixed_assets[i], depreciation_rate)]
        receivables_change == Diff(receivables)
        prepayments_change == Diff(prepayments)
        payables_change == Diff(payables)
        advances_change == Diff(advances)
        operating_cash_flows == [i \in Periods |->
            IF i = 0 THEN FirstYearOperatingCF(net_profits, depreciation)
            ELSE net_profits[i] + depreciation[i] - receivables_change[i - 1]
                 - prepayments_change[i - 1] + payables_change[i - 1]
                 + advances_change[i - 1]]
        investing_cash_flows == [i \in Periods |->
            IF i = 0 THEN 0 ELSE InvestingCF(fixed_assets, depreciation, i)]
        financing_cash_flows == [i \in Periods |->
            IF i = 0 THEN 0 ELSE capital_changes[i - 1]]
        net_cash_flows == [i \in Periods |->
            NetCashFlow(operating_cash_flows[i], investing_cash_flows[i],
                        financing_cash_flows[i])]
    IN  [OperatingCF |-> operating_cash_flows,
         InvestingCF |-> investing_cash_flows,
         FinancingCF |-> financing_cash_flows,
         NetCF |-> net_cash_flows]

(***************************************************************************)
(* Key Metrics.  A quotient is kept as the pair it was computed from; what  *)
(* a division by zero gives depends on the operand types                   *)
(***************************************************************************)
Number(x, y) == [kind |-> "number", num |-> x, den |-> y]

\* x / y on Python floats
float_divide(x, y) ==
    IF y # 0 THEN Number(x, y)
    ELSE [kind |-> "ZeroDivisionError", num |-> x, den |-> y]

\* x / y on numpy.float64 scalars
numpy_divide(x, y) ==
    IF y # 0 THEN Number(x, y)
    ELSE [kind |-> IF x > 0 THEN "inf" ELSE IF x < 0 THEN "-inf" ELSE "nan",
          num |-> x, den |-> y]

\* the elements zip() draws from a DataFrame row: Python floats or numpy
\* scalars, as the installed pandas hands them out
series_divide(x, y, scalars) ==
    IF scalars = "python" THEN float_divide(x, y) ELSE numpy_divide(x, y)

SeriesScalars == {"python", "numpy"}

\* the literal 0 of "... if d != 0 else 0"
Zero == Number(0, 1)

\* (x / y) ** (1 / 3) - 1 on Python floats
float_cagr(x, y) ==
    IF y = 0 THEN [kind |-> "ZeroDivisionError", num |-> x, den |-> y]
    ELSE [kind |-> IF (x < 0) # (y < 0) /\ x # 0 THEN "complex" ELSE "cagr",
          num |-> x, den |-> y]

\* (x / y) ** (1 / 3) - 1 on numpy.float64 scalars
numpy_cagr(x, y) ==
    IF y = 0 THEN [kind |-> IF x = 0 THEN "nan" ELSE "inf", num |-> x, den |-> y]
    ELSE [kind |-> IF (x < 0) # (y < 0) /\ x # 0 THEN "nan" ELSE "cagr",
          num |-> x, den |-> y]

\* profit_loss.py: gross_margins, net_margins, revenue_growth
ProfitLossMetrics(pl_df) ==
    [gross_margins |->
        [i \in Periods |-> float_divide(pl_df.GrossProfit[i], pl_df.Revenue[i])],
     net_margins |->
        [i \in Periods |-> float_divide(pl_df.NetProfit[i], pl_df.Revenue[i])],
     revenue_growth |-> float_cagr(pl_df.Revenue[3], pl_df.Revenue[0])]

\* balance_sheet.py: debt_ratios, fixed_asset_ratios, equity_ratios
BalanceSheetMetrics(bs_df, scalars) ==
    [debt_ratios |-> [i \in Periods |->
        series_divide(bs_df.TotalLiabilities[i], bs_df.TotalAssets[i], scalars)],
     fixed_asset_ratios |-> [i \in Periods |->
        series_divide(bs_df.FixedAssets[i], bs_df.TotalAssets[i], scalars)],
     equity_ratios |-> [i \in Periods |->
        series_divide(bs_df.TotalEquity[i], bs_df.TotalAssets[i], scalars)]]

\* ocf / np if np != 0 else 0
OperatingCFRatio(ocf, net_profit) ==
    IF net_profit # 0 THEN numpy_divide(ocf, net_profit) ELSE Zero

\* -icf / ocf if ocf != 0 else 0
CapexRatio(icf, ocf) == IF ocf # 0 THEN numpy_divide(0 - icf, ocf) ELSE Zero

\* (net_cash_flows[-1] / net_cash_flows[0]) ** (1 / 3) - 1
\*     if net_cash_flows[0] != 0 else 0
NetCFGrowth(last, first) == IF first # 0 THEN numpy_cagr(last, first) ELSE Zero

\* cash_flow.py: operating_cf_ratio, capex_ratio, cf_growth
CashFlowMetrics(pl_df, cf_df) ==
    [operating_cf_ratio |-> [i \in Periods |->
        OperatingCFRatio(cf_df.OperatingCF[i], pl_df.NetProfit[i])],
     capex_ratio |-> [i \in Periods |->
        CapexRatio(cf_df.InvestingCF[i], cf_df.OperatingCF[i])],
     cf_growth |-> NetCFGrowth(cf_df.NetCF[3], cf_df.NetCF[0])]

\* a forecast whose ratios divide by a zero Total Assets
ZeroTotalAssets(pl_df, b) ==
    /\ pl_df # None
    /\ \E forecast_df \in {BalanceSheetForecast(pl_df, b)} :
           \E i \in Periods : forecast_df.TotalAssets[i] = 0

\* a metric whose evaluation raised
RaisedIn(values) == \E i \in DOMAIN values : values[i].kind = "ZeroDivisionError"

(***************************************************************************)
(* Widget values the user can set before pressing a button                 *)
(***************************************************************************)
\* the five P&L sliders of one forecast year: the defaults, a high-growth
\* year without expenses, and a flat year with every ratio at its maximum
YearSliders ==
    {[growth |-> 150, cost |-> 600, sales |-> 100, management |-> 70, financial |-> 20],
     [growth |-> 500, cost |-> 400, sales |-> 0, management |-> 0, financial |-> 0],
     [growth |-> 0, cost |-> 800, sales |-> 300, management |-> 200, financial |-> 100]}

\* a flat year that breaks even: cost 80% and selling 20% of revenue
BreakEvenYear ==
    [growth |-> 0, cost |-> 800, sales |-> 200, management |-> 0, financial |-> 0]

DefaultYear ==
    [growth |-> 150, cost |-> 600, sales |-> 100, management |-> 70, financial |-> 20]

PLAssumptions ==
    {[revenue_growth_rates |-> [i \in ForecastPeriods |-> y[i].growth],
      cost_ratios |-> [i \in ForecastPeriods |-> y[i].cost],
      sales_expense_ratios |-> [i \in ForecastPeriods |-> y[i].sales],
      management_expense_ratios |-> [i \in ForecastPeriods |-> y[i].management],
      financial_expense_ratios |-> [i \in ForecastPeriods |-> y[i].financial]] :
        y \in [ForecastPeriods -> YearSliders] \cup
              {[i \in ForecastPeriods |-> IF i = k THEN BreakEvenYear ELSE DefaultYear] :
                   k \in ForecastPeriods}}

DefaultPLAssumptions ==
    [revenue_growth_rates |-> [i \in ForecastPeriods |-> 150],
     cost_ratios |-> [i \in ForecastPeriods |-> 600],
     sales_expense_ratios |-> [i \in ForecastPeriods |-> 100],
     management_expense_ratios |-> [i \in ForecastPeriods |-> 70],
     financial_expense_ratios |-> [i \in ForecastPeriods |-> 20]]

DefaultBSAssumptions ==
    [receivables_ratio |-> 110,
     prepayment_ratio |-> 10,
     payables_ratio |-> 200,
     advance_ratio |-> 10,
     fixed_asset_growth |-> 200,
     capital_increase |-> 325 * Scale]

\* the number_input has no minimum: on the default P&L a capital decrease of
\* 1653 leaves 2024E with Total Liabilities & Equity of exactly zero
CapitalWithdrawal == [DefaultBSAssumptions EXCEPT !.capital_increase = 0 - 1653 * Scale]

BSAssumptions ==
    [receivables_ratio : {110, 300},
     prepayment_ratio : {10, 100},
     payables_ratio : {0, 200},
     advance_ratio : {10},
     fixed_asset_growth : {0, 200, 500},
     capital_increase : {0, 325 * Scale}]
    \cup {CapitalWithdrawal}

DepreciationRates == {0, 100, 105}

DefaultDepreciationRate == 100

(***************************************************************************)
(* The sections as main.py calls them: pressed says whether the section's  *)
(* button was clicked in this script run                                   *)
(***************************************************************************)
\* the outcome of a call that did not return: the exception left the function
Raised == [raised |-> TRUE]

\* forecast_df = None; if st.button(...): forecast_df = ...; return forecast_df.
\* The function has no try block: raises says that a call made after the
\* click (metrics, charts, table display) raised, and the exception leaves it
create_profit_loss_section(pressed, a, raises) ==
    IF ~pressed THEN None
    ELSE IF raises THEN Raised
    ELSE IF \E forecast_df \in {ProfitLossForecast(a)} :
                LET m == ProfitLossMetrics(forecast_df)
                IN  \/ RaisedIn(m.gross_margins)
                    \/ RaisedIn(m.net_margins)
                    \/ m.revenue_growth.kind = "ZeroDivisionError"
         THEN Raised
    ELSE ProfitLossForecast(a)

\* the code after the click reaches "except Exception": a statement of the
\* try block raised, as profit_loss_data.loc on None does
\* or a ratio of the Key Metrics divided by a zero Total Assets
balance_sheet_fails(pl_df, pressed, b, raises, scalars) ==
    /\ pressed
    /\ \/ raises
       \/ pl_df = None
       \/ \E forecast_df \in {BalanceSheetForecast(pl_df, b)} :
              LET m == BalanceSheetMetrics(forecast_df, scalars)
              IN  \/ RaisedIn(m.debt_ratios)
                  \/ RaisedIn(m.fixed_asset_ratios)
                  \/ RaisedIn(m.equity_ratios)

\* returns forecast_df, or None without a click or after "except Exception"
create_balance_sheet_section_returnsPartial(pl_df, pressed, b, raises, scalars) ==
    IF ~pressed THEN None
    ELSE IF pl_df = None THEN None
    ELSE BalanceSheetForecast(pl_df, b)
create_balance_sheet_section(pl_df, pressed, b, raises, scalars) ==
    IF ~pressed THEN None
    ELSE IF balance_sheet_fails(pl_df, pressed, b, raises, scalars) THEN None
    ELSE BalanceSheetForecast(pl_df, b)

\* the code after the click reaches "except Exception"
cash_flow_fails(pl_df, bs_df, pressed, raises) ==
    pressed /\ (raises \/ pl_df = None \/ bs_df = None)

\* cash_flow_df as displayed, or None without a click or after "except"
create_cash_flow_section(pl_df, bs_df, pressed, depreciation_rate, raises) ==
    IF ~pressed THEN None
    ELSE IF cash_flow_fails(pl_df, bs_df, pressed, raises) THEN None
    ELSE CashFlowForecast(pl_df, bs_df, depreciation_rate)

(***************************************************************************)
(* main.py: one script run is tab1, tab2, tab3, sidebar                    *)
(***************************************************************************)
VARIABLES
    profit_loss_data,     \* st.session_state['profit_loss_data']
    balance_sheet_data,   \* st.session_state['balance_sheet_data']
    is_pl_generated,      \* st.session_state['is_pl_generated']
    is_bs_generated,      \* st.session_state['is_bs_generated']
    pc,                   \* position of the script run, "idle" between runs
    button,               \* the button whose click started this run
    tab1_status,          \* what the P&L tab did in this run
    tab2_status,          \* what the Balance Sheet tab did in this run
    tab3_status,          \* what the Cash Flow tab did in this run
    cash_flow_df,         \* the Cash Flow table displayed in this run
    pl_metrics,           \* Key Metrics the P&L section computed in this run
    bs_metrics,           \* Key Metrics the Balance Sheet section computed
    cf_metrics,           \* Key Metrics the Cash Flow section computed
    rerun,                \* this run was started by st.experimental_rerun()
    pl_assumptions,       \* slider values the stored P&L was built with
    bs_assumptions,       \* widget values the stored Balance Sheet was built with
    bs_source,            \* the P&L table handed to the Balance Sheet section
    bs_discarded,         \* a stored Balance Sheet was cleared by a new P&L
    cf_args               \* the arguments the displayed Cash Flow was built from

session == <<profit_loss_data, balance_sheet_data, is_pl_generated, is_bs_generated>>
display == <<tab1_status, tab2_status, tab3_status, cash_flow_df, cf_args,
             pl_metrics, bs_metrics, cf_metrics>>
provenance == <<pl_assumptions, bs_assumptions, bs_source, bs_discarded>>
vars == <<session, pc, button, rerun, display, provenance>>

Buttons == {"none", "pl", "bs", "cf", "reset"}

\* with tab2: if st.session_state['is_pl_generated']
BalanceSheetTabOpen_always == TRUE
BalanceSheetTabOpen == is_pl_generated

\* with tab3: if is_pl_generated and is_bs_generated
CashFlowTabOpen == is_pl_generated /\ is_bs_generated

\* a button can be clicked only if the previous run drew it; a run stopped
\* by an exception in tab1 drew nothing after the P&L widgets
Rendered(b) ==
    CASE tab1_status = "exception" -> b \in {"none", "pl"}
      [] b = "bs" -> BalanceSheetTabOpen
      [] b = "cf" -> CashFlowTabOpen
      [] OTHER -> TRUE

\* whether a call made after the click raises in this run
Raises(pressed) == IF pressed THEN BOOLEAN ELSE {FALSE}

\* the widget values a run reads; without the section's click they are not
\* used, so the defaults stand for all of them
PLWidgets == IF button = "pl" THEN PLAssumptions ELSE {DefaultPLAssumptions}
BSWidgets == IF button = "bs" THEN BSAssumptions ELSE {DefaultBSAssumptions}
CFWidgets == IF button = "cf" THEN DepreciationRates ELSE {DefaultDepreciationRate}

\* a run whose section raises leaves no result of the widget values behind,
\* so one value stands for all of them
Read(widgets, raises) == IF raises THEN {CHOOSE w \in widgets : TRUE} ELSE widgets

\* a fresh run draws the page anew
ClearDisplay ==
    /\ tab1_status' = "pending"
    /\ tab2_status' = "pending"
    /\ tab3_status' = "pending"
    /\ cash_flow_df' = None
    /\ cf_args' = None
    /\ pl_metrics' = None
    /\ bs_metrics' = None
    /\ cf_metrics' = None

\* init_session_state() on the first run of a session
Init ==
    /\ profit_loss_data = None
    /\ balance_sheet_data = None
    /\ is_pl_generated = FALSE
    /\ is_bs_generated = FALSE
    /\ pc = "tab1"
    /\ button = "none"
    /\ tab1_status = "pending"
    /\ tab2_status = "pending"
    /\ tab3_status = "pending"
    /\ cash_flow_df = None
    /\ cf_args = None
    /\ pl_metrics = None
    /\ bs_metrics = None
    /\ cf_metrics = None
    /\ pl_assumptions = None
    /\ bs_assumptions = None
    /\ bs_source = None
    /\ bs_discarded = FALSE
    /\ rerun = FALSE

\* the user clicks a button, or moves a slider (no button): the script reruns
UserClick ==
    /\ pc = "idle"
    /\ \E b \in Buttons : Rendered(b) /\ button' = b
    /\ pc' = "tab1"
    /\ rerun' = FALSE
    /\ ClearDisplay
    /\ UNCHANGED <<session, provenance>>

\* with tab1
Tab1_keepBalanceSheet ==
    /\ pc = "tab1"
    /\ \E raises \in Raises(button = "pl") : \E a \in Read(PLWidgets, raises) :
        LET pl_result == create_profit_loss_section(button = "pl", a, raises)
        IN  IF pl_result = Raised
            THEN /\ tab1_status' = "exception"
                 /\ pc' = "idle"
                 /\ UNCHANGED <<session, provenance, pl_metrics>>
            ELSE /\ pc' = "tab2"
                 /\ IF pl_result # None
                    THEN /\ profit_loss_data' = pl_result
                         /\ is_pl_generated' = TRUE
                         /\ pl_assumptions' = a
                         /\ bs_discarded' = (bs_discarded \/ balance_sheet_data # None)
                         /\ tab1_status' = "generated"
                         /\ pl_metrics' = ProfitLossMetrics(profit_loss_data')
                         /\ UNCHANGED <<balance_sheet_data, is_bs_generated,
                                        bs_assumptions, bs_source>>
                    ELSE /\ tab1_status' = "drawn"
                         /\ UNCHANGED <<session, provenance, pl_metrics>>
    /\ UNCHANGED <<button, tab2_status, tab3_status, cash_flow_df, cf_args,
                   bs_metrics, cf_metrics, rerun>>
Tab1 ==
    /\ pc = "tab1"
    /\ \E raises \in Raises(button = "pl") : \E a \in Read(PLWidgets, raises) :
        LET pl_result == create_profit_loss_section(button = "pl", a, raises)
        IN  IF pl_result = Raised
            THEN \* the exception ends the script run at line 48
                 /\ tab1_status' = "exception"
                 /\ pc' = "idle"
                 /\ UNCHANGED <<session, provenance, pl_metrics>>
            ELSE /\ pc' = "tab2"
                 /\ IF pl_result # None
                    THEN /\ profit_loss_data' = pl_result
                         /\ is_pl_generated' = TRUE
                         /\ balance_sheet_data' = None
                         /\ is_bs_generated' = FALSE
                         /\ pl_assumptions' = a
                         /\ bs_assumptions' = None
                         /\ bs_source' = None
                         /\ bs_discarded' = (bs_discarded \/ balance_sheet_data # None)
                         /\ tab1_status' = "generated"
                         /\ pl_metrics' = ProfitLossMetrics(profit_loss_data')
                    ELSE /\ tab1_status' = "drawn"
                         /\ UNCHANGED <<session, provenance, pl_metrics>>
    /\ UNCHANGED <<button, tab2_status, tab3_status, cash_flow_df, cf_args,
                   bs_metrics, cf_metrics, rerun>>

\* with tab2
Tab2 ==
    /\ pc = "tab2"
    /\ IF BalanceSheetTabOpen
       THEN \E raises \in Raises(button = "bs") : \E b \in Read(BSWidgets, raises) :
            \* how the rows iterate shows only where a ratio divides by zero
            \E scalars \in Read(SeriesScalars, \/ button # "bs"
                                                \/ raises
                                                \/ ~ZeroTotalAssets(profit_loss_data, b)) :
            LET bs_result ==
                    create_balance_sheet_section(profit_loss_data, button = "bs",
                                                 b, raises, scalars)
                failed == balance_sheet_fails(profit_loss_data, button = "bs",
                                              b, raises, scalars)
            IN  /\ tab2_status' = IF failed THEN "error"
                                  ELSE IF button = "bs" THEN "generated" ELSE "drawn"
                /\ IF bs_result # None
                   THEN /\ balance_sheet_data' = bs_result
                        /\ is_bs_generated' = TRUE
                        /\ bs_assumptions' = b
                        /\ bs_source' = profit_loss_data
                        /\ bs_metrics' = BalanceSheetMetrics(balance_sheet_data',
                                                             scalars)
                   ELSE /\ UNCHANGED <<balance_sheet_data, is_bs_generated,
                                         bs_assumptions, bs_source>>
                        \* the ratios whose evaluation raised
                        /\ bs_metrics' =
                               IF button = "bs" /\ ~raises /\ profit_loss_data # None
                               THEN BalanceSheetMetrics(
                                        BalanceSheetForecast(profit_loss_data, b),
                                        scalars)
                               ELSE None
       ELSE /\ tab2_status' = "info_pl_first"
            /\ UNCHANGED <<balance_sheet_data, is_bs_generated,
                           bs_assumptions, bs_source, bs_metrics>>
    /\ pc' = "tab3"
    /\ UNCHANGED <<profit_loss_data, is_pl_generated, pl_assumptions, bs_discarded,
                   button, tab1_status, tab3_status, cash_flow_df, cf_args,
                   pl_metrics, cf_metrics, rerun>>

\* with tab3
Tab3 ==
    /\ pc = "tab3"
    /\ IF CashFlowTabOpen
       THEN \E raises \in Raises(button = "cf") :
            \E depreciation_rate \in Read(CFWidgets, raises) :
            LET cf == create_cash_flow_section(profit_loss_data, balance_sheet_data,
                                               button = "cf", depreciation_rate, raises)
            IN  IF cf # None
                THEN /\ cash_flow_df' = cf
                     /\ cf_args' = [pl |-> profit_loss_data,
                                    bs |-> balance_sheet_data,
                                    depreciation_rate |-> depreciation_rate]
                     /\ cf_metrics' = CashFlowMetrics(profit_loss_data, cash_flow_df')
                     /\ tab3_status' = "generated"
                ELSE /\ tab3_status' = IF button = "cf" THEN "error" ELSE "drawn"
                     /\ UNCHANGED <<cash_flow_df, cf_args, cf_metrics>>
       ELSE /\ tab3_status' = IF ~is_pl_generated THEN "info_pl_first"
                              ELSE "info_bs_first"
            /\ UNCHANGED <<cash_flow_df, cf_args, cf_metrics>>
    /\ pc' = "sidebar"
    /\ UNCHANGED <<session, provenance, button, tab1_status, tab2_status,
                   pl_metrics, bs_metrics, rerun>>

\* reset_all_data(): the two tables and the two flags
reset_all_data_keepsFlags ==
    /\ profit_loss_data' = None
    /\ balance_sheet_data' = None
    /\ UNCHANGED <<is_pl_generated, is_bs_generated>>
reset_all_data ==
    /\ profit_loss_data' = None
    /\ balance_sheet_data' = None
    /\ is_pl_generated' = FALSE
    /\ is_bs_generated' = FALSE

\* with st.sidebar: reset_all_data() and st.experimental_rerun(), or the
\* run ends and the page waits for the user
Sidebar ==
    /\ pc = "sidebar"
    /\ IF button = "reset"
       THEN /\ reset_all_data
            /\ pl_assumptions' = None
            /\ bs_assumptions' = None
            /\ bs_source' = None
            /\ bs_discarded' = FALSE
            /\ pc' = "tab1"
            /\ button' = "none"
            /\ rerun' = TRUE
            /\ ClearDisplay
       ELSE /\ pc' = "idle"
            /\ UNCHANGED <<session, provenance, button, display, rerun>>

Next == UserClick \/ Tab1 \/ Tab2 \/ Tab3 \/ Sidebar

Spec == Init /\ [][Next]_vars

(***************************************************************************)
(* cash_flow.py on its own: create_cash_flow_section as a function of the  *)
(* two tables it is handed.  main.py only ever hands it a P&L whose 2023A  *)
(* column is historical_data (Net Profit 200); here the 2023A financial    *)
(* expense also takes values that leave a Net Profit of 0 and of -200, so  *)
(* that period 0 of the Net Cash Flow reaches zero and below.              *)
(***************************************************************************)
HistoricalFinancialExpense == {20 * Scale, 220 * Scale, 420 * Scale}

ProfitLossArgument(a, financial_expense) ==
    LET pl_df == ProfitLossForecast(a)
    IN  [pl_df EXCEPT
            !.FinancialExpense[0] = financial_expense,
            !.NetProfit[0] = OperatingProfit(pl_df.Revenue[0], pl_df.Cost[0],
                                             pl_df.SellingExpense[0],
                                             pl_df.AdminExpense[0],
                                             financial_expense)]

InitCashFlowSection ==
    /\ \E a \in PLAssumptions : \E e \in HistoricalFinancialExpense :
           /\ profit_loss_data = ProfitLossArgument(a, e)
           /\ pl_assumptions = a
    /\ balance_sheet_data = BalanceSheetForecast(profit_loss_data, DefaultBSAssumptions)
    /\ bs_assumptions = DefaultBSAssumptions
    /\ bs_source = profit_loss_data
    /\ bs_discarded = FALSE
    /\ is_pl_generated = TRUE
    /\ is_bs_generated = TRUE
    /\ pc = "tab3"
    /\ button = "cf"
    /\ tab1_status = "drawn"
    /\ tab2_status = "drawn"
    /\ tab3_status = "pending"
    /\ cash_flow_df = None
    /\ cf_args = None
    /\ pl_metrics = None
    /\ bs_metrics = None
    /\ cf_metrics = None
    /\ rerun = FALSE

NextCashFlowSection == Tab3

SpecCashFlowSection == InitCashFlowSection /\ [][NextCashFlowSection]_vars

(***************************************************************************)
(* Properties                                                              *)
(***************************************************************************)
Amount(units, hundred_thousandths) == units * Scale + hundred_thousandths

\* C1: in every stored Balance Sheet and every period 0..3 the Total Assets
\* row equals the Total Liabilities row plus the Total Equity row
C1_BalanceSheetBalances ==
    balance_sheet_data # None =>
        \A i \in Periods :
            balance_sheet_data.TotalAssets[i] =
                balance_sheet_data.TotalLiabilities[i] + balance_sheet_data.TotalEquity[i]

\* a Balance Sheet with liabilities in every forecast year and a changed total
C1_Witness ==
    /\ balance_sheet_data # None
    /\ \A i \in ForecastPeriods : balance_sheet_data.TotalLiabilities[i] > 0
    /\ balance_sheet_data.TotalAssets[1] # balance_sheet_data.TotalAssets[0]

\* C2: Cash of every forecast year is Total Liabilities & Equity minus
\* (Accounts Receivable + Prepayments + Fixed Assets), so the four asset
\* lines add up to the Total Assets row in every period 0..3; 1500 against
\* 1450 of other assets leaves 50
C2_CashIsThePlug ==
    /\ BalancingCash(1500 * Scale, 1450 * Scale) = 50 * Scale
    /\ balance_sheet_data # None =>
        /\ \A i \in ForecastPeriods :
            balance_sheet_data.Cash[i] =
                balance_sheet_data.TotalLiabEquity[i]
                - (balance_sheet_data.AccountsReceivable[i]
                   + balance_sheet_data.Prepayments[i]
                   + balance_sheet_data.FixedAssets[i])
        /\ \A i \in Periods :
            balance_sheet_data.Cash[i] + balance_sheet_data.AccountsReceivable[i]
            + balance_sheet_data.Prepayments[i] + balance_sheet_data.FixedAssets[i]
                = balance_sheet_data.TotalAssets[i]

\* a Balance Sheet whose fixed assets grew and whose cash moved every year
C2_Witness ==
    /\ balance_sheet_data # None
    /\ balance_sheet_data.FixedAssets[3] > balance_sheet_data.FixedAssets[0]
    /\ \A i \in ForecastPeriods :
        balance_sheet_data.Cash[i] # balance_sheet_data.Cash[i - 1]

\* C3: in every displayed Cash Flow and every period 0..3 Net Cash Flow is
\* Operating + Investing + Financing Cash Flow
C3_NetCashFlowIsSum ==
    cash_flow_df # None =>
        \A i \in Periods :
            cash_flow_df.NetCF[i] =
                cash_flow_df.OperatingCF[i] + cash_flow_df.InvestingCF[i]
                + cash_flow_df.FinancingCF[i]

\* a Cash Flow with a capital increase and an investment in 2024E
C3_Witness ==
    /\ cash_flow_df # None
    /\ cash_flow_df.FinancingCF[1] # 0
    /\ cash_flow_df.InvestingCF[1] # 0
    /\ cash_flow_df.OperatingCF[1] # 0

\* C4: a stored Balance Sheet was always computed from the P&L table that is
\* stored now, a run that generates a P&L leaves no Balance Sheet stored, and
\* a displayed Cash Flow was computed from the stored P&L and a Balance Sheet
\* computed from that same P&L
C4_NoStaleBalanceSheet ==
    /\ [](/\ balance_sheet_data # None =>
                /\ bs_source = profit_loss_data
                /\ balance_sheet_data =
                       BalanceSheetForecast(profit_loss_data, bs_assumptions)
          /\ cash_flow_df # None =>
                /\ cf_args.pl = profit_loss_data
                /\ cf_args.bs = balance_sheet_data
                /\ bs_source = cf_args.pl)
    /\ [][pc = "tab1" /\ tab1_status' = "generated" =>
            balance_sheet_data' = None /\ is_bs_generated' = FALSE]_vars

\* after a stored Balance Sheet was discarded by a new P&L, a Balance Sheet and
\* a Cash Flow were generated again
C4_Witness ==
    /\ bs_discarded
    /\ balance_sheet_data # None
    /\ cash_flow_df # None
    /\ pl_assumptions # DefaultPLAssumptions

SectionRan(status) == status \in {"drawn", "generated", "error"}

\* C5: the Balance Sheet section runs only when a P&L is stored and the Cash
\* Flow section only when a P&L and a Balance Sheet are stored; otherwise the
\* tab shows the message for the first missing statement (P&L before Balance
\* Sheet) and leaves the session state as it was
C5_PreconditionGating ==
    /\ [](/\ SectionRan(tab2_status) =>
                is_pl_generated /\ profit_loss_data # None
          /\ SectionRan(tab3_status) =>
                /\ is_pl_generated /\ profit_loss_data # None
                /\ is_bs_generated /\ balance_sheet_data # None)
    /\ [][/\ pc = "tab2" /\ ~is_pl_generated =>
                tab2_status' = "info_pl_first" /\ UNCHANGED session
          /\ pc = "tab3" /\ ~is_pl_generated =>
                tab3_status' = "info_pl_first" /\ UNCHANGED session
          /\ pc = "tab3" /\ is_pl_generated /\ ~is_bs_generated =>
                tab3_status' = "info_bs_first" /\ UNCHANGED session]_vars

\* a finished run in which both tabs were blocked for the missing P&L
C5_Witness ==
    /\ pc = "idle"
    /\ tab2_status = "info_pl_first"
    /\ tab3_status = "info_pl_first"
    /\ profit_loss_data = None
    /\ balance_sheet_data = None

C7_ProfitLossRecurrence ==
    profit_loss_data # None =>
        /\ \A i \in ForecastPeriods :
            LET rev == profit_loss_data.Revenue[i]
            IN  /\ rev = Mul(profit_loss_data.Revenue[i - 1],
                             RateScale + pl_assumptions.revenue_growth_rates[i])
                /\ profit_loss_data.Cost[i] = Mul(rev, pl_assumptions.cost_ratios[i])
                /\ profit_loss_data.SellingExpense[i] =
                       Mul(rev, pl_assumptions.sales_expense_ratios[i])
                /\ profit_loss_data.AdminExpense[i] =
                       Mul(rev, pl_assumptions.management_expense_ratios[i])
                /\ profit_loss_data.FinancialExpense[i] =
                       Mul(rev, pl_assumptions.financial_expense_ratios[i])
                /\ profit_loss_data.GrossProfit[i] = rev - profit_loss_data.Cost[i]
                /\ profit_loss_data.NetProfit[i] =
                       rev - profit_loss_data.Cost[i]
                       - profit_loss_data.SellingExpense[i]
                       - profit_loss_data.AdminExpense[i]
                       - profit_loss_data.FinancialExpense[i]
        /\ pl_assumptions = DefaultPLAssumptions =>
            /\ profit_loss_data.Revenue[0] = Amount(1000, 0)
            /\ profit_loss_data.Revenue[1] = Amount(1150, 0)
            /\ profit_loss_data.Revenue[2] = Amount(1322, 50000)
            /\ profit_loss_data.Revenue[3] = Amount(1520, 87500)
            /\ profit_loss_data.NetProfit[1] = Amount(241, 50000)

\* the P&L of the default sliders is stored
C7_Witness ==
    /\ profit_loss_data # None
    /\ pl_assumptions = DefaultPLAssumptions
    /\ profit_loss_data.Cost[1] = Amount(690, 0)

RECURSIVE SumOver(_, _, _)
SumOver(row, from, to) ==
    IF from > to THEN 0 ELSE row[from] + SumOver(row, from + 1, to)

\* C8: every forecast year of the stored Balance Sheet is derived from the
\* same year of the P&L and the previous Balance Sheet column; Retained
\* Earnings are the historical figure plus the net profits of years 1..i
C8_BalanceSheetLines ==
    balance_sheet_data # None =>
        \A i \in ForecastPeriods :
            /\ balance_sheet_data.AccountsReceivable[i] =
                   Mul(profit_loss_data.Revenue[i], bs_assumptions.receivables_ratio)
            /\ balance_sheet_data.Advances[i] =
                   Mul(profit_loss_data.Revenue[i], bs_assumptions.advance_ratio)
            /\ balance_sheet_data.Prepayments[i] =
                   Mul(profit_loss_data.Cost[i], bs_assumptions.prepayment_ratio)
            /\ balance_sheet_data.AccountsPayable[i] =
                   Mul(profit_loss_data.Cost[i], bs_assumptions.payables_ratio)
            /\ balance_sheet_data.FixedAssets[i] =
                   Mul(balance_sheet_data.FixedAssets[i - 1],
                       RateScale + bs_assumptions.fixed_asset_growth)
            /\ balance_sheet_data.TotalLiabilities[i] =
                   balance_sheet_data.AccountsPayable[i] + balance_sheet_data.Advances[i]
            /\ balance_sheet_data.RetainedEarnings[i] =
                   balance_sheet_data.RetainedEarnings[i - 1]
                   + profit_loss_data.NetProfit[i]
            /\ balance_sheet_data.RetainedEarnings[i] =
                   historical_bs.RetainedEarnings
                   + SumOver(profit_loss_data.NetProfit, 1, i)

\* a Balance Sheet on a P&L whose net profit changes every year, with payables
\* and growing fixed assets
C8_Witness ==
    /\ balance_sheet_data # None
    /\ \A i \in ForecastPeriods :
        profit_loss_data.NetProfit[i] # profit_loss_data.NetProfit[i - 1]
    /\ bs_assumptions.payables_ratio > 0
    /\ bs_assumptions.fixed_asset_growth > 0

\* C9: every forecast year of the displayed Cash Flow uses the differences
\* of the Balance Sheet lines against the year before, with depreciation the
\* year's Fixed Assets times the depreciation rate
C9_CashFlowDifferences ==
    cash_flow_df # None =>
        LET pl == cf_args.pl
            bs == cf_args.bs
            Depreciation(i) == Mul(bs.FixedAssets[i], cf_args.depreciation_rate)
        IN  \A i \in ForecastPeriods :
            /\ cash_flow_df.OperatingCF[i] =
                   pl.NetProfit[i] + Depreciation(i)
                   - (bs.AccountsReceivable[i] - bs.AccountsReceivable[i - 1])
                   - (bs.Prepayments[i] - bs.Prepayments[i - 1])
                   + (bs.AccountsPayable[i] - bs.AccountsPayable[i - 1])
                   + (bs.Advances[i] - bs.Advances[i - 1])
            /\ cash_flow_df.InvestingCF[i] =
                   0 - (bs.FixedAssets[i] - bs.FixedAssets[i - 1] + Depreciation(i))
            /\ cash_flow_df.FinancingCF[i] = bs.ShareCapital[i] - bs.ShareCapital[i - 1]

\* a Cash Flow with depreciation on growing fixed assets and moving payables
C9_Witness ==
    /\ cash_flow_df # None
    /\ cf_args.depreciation_rate > 0
    /\ cf_args.bs.FixedAssets[2] > cf_args.bs.FixedAssets[1]
    /\ cf_args.bs.AccountsPayable[2] # cf_args.bs.AccountsPayable[1]
    /\ cf_args.bs.AccountsReceivable[2] # cf_args.bs.AccountsReceivable[1]

\* C10: period 0 of the displayed Cash Flow is Net Profit[0] plus Fixed
\* Assets[0] times the depreciation rate, with no investing and no financing
\* flow; a rate of 10% gives 201.6, 0, 0, 201.6
C10_HistoricalCashFlow ==
    cash_flow_df # None =>
        /\ cash_flow_df.OperatingCF[0] =
               cf_args.pl.NetProfit[0]
               + Mul(cf_args.bs.FixedAssets[0], cf_args.depreciation_rate)
        /\ cash_flow_df.InvestingCF[0] = 0
        /\ cash_flow_df.FinancingCF[0] = 0
        /\ cash_flow_df.NetCF[0] = cash_flow_df.OperatingCF[0]
        /\ cf_args.depreciation_rate = 100 =>
            /\ cf_args.pl.NetProfit[0] = Amount(200, 0)
            /\ cf_args.bs.FixedAssets[0] = Amount(16, 0)
            /\ cash_flow_df.OperatingCF[0] = Amount(201, 60000)
            /\ cash_flow_df.NetCF[0] = Amount(201, 60000)

\* a Cash Flow at the default depreciation rate of 10%
C10_Witness ==
    /\ cash_flow_df # None
    /\ cf_args.depreciation_rate = 100
    /\ cash_flow_df.NetCF[0] > cf_args.pl.NetProfit[0]

\* C11: a failed generation (the P&L section raising, the Balance Sheet
\* section reaching its except branch) leaves the two stored tables and the
\* two flags as they were, and a stored table is only ever replaced by None
\* or by the complete forecast of a run that succeeded
C11_AllOrNothing ==
    [][/\ pc = "tab1" /\ tab1_status' = "exception" => UNCHANGED session
       /\ pc = "tab2" /\ tab2_status' = "error" => UNCHANGED session
       /\ profit_loss_data' # profit_loss_data =>
            \/ profit_loss_data' = None
            \/ /\ tab1_status' = "generated"
               /\ profit_loss_data' = ProfitLossForecast(pl_assumptions')
       /\ balance_sheet_data' # balance_sheet_data =>
            \/ balance_sheet_data' = None
            \/ /\ tab2_status' = "generated"
               /\ balance_sheet_data' =
                      BalanceSheetForecast(profit_loss_data, bs_assumptions')]_vars

\* a run in which regenerating the Balance Sheet failed while one was stored
C11_Witness ==
    /\ tab2_status = "error"
    /\ button = "bs"
    /\ balance_sheet_data # None
    /\ is_bs_generated
    /\ is_pl_generated

\* C12: every derived ratio whose denominator is zero in some period is shown
\* for that period as an explicit undefined / not-applicable sentinel: not as
\* infinity, NaN or an ordinary number, and not as a raised error.  The model
\* has no outcome of kind "undefined" because no section produces one.
C12_ZeroDenominatorSentinel ==
    /\ pl_metrics # None =>
          /\ \A i \in Periods : profit_loss_data.Revenue[i] = 0 =>
                /\ pl_metrics.gross_margins[i].kind = "undefined"
                /\ pl_metrics.net_margins[i].kind = "undefined"
          /\ profit_loss_data.Revenue[0] = 0 =>
                pl_metrics.revenue_growth.kind = "undefined"
    /\ bs_metrics # None =>
          \A i \in Periods :
              \A k \in {"debt_ratios", "fixed_asset_ratios", "equity_ratios"} :
                  bs_metrics[k][i].den = 0 => bs_metrics[k][i].kind = "undefined"
    /\ cf_metrics # None =>
          \A i \in Periods :
              /\ profit_loss_data.NetProfit[i] = 0 =>
                    cf_metrics.operating_cf_ratio[i].kind = "undefined"
              /\ cash_flow_df.OperatingCF[i] = 0 =>
                    cf_metrics.capex_ratio[i].kind = "undefined"

AgreeUpTo(a1, a2, i) ==
    \A k \in DOMAIN a1 : \A j \in 1..i : a1[k][j] = a2[k][j]

\* two tables with the same rows in the periods 0..i
SamePrefix(t1, t2, i) ==
    /\ DOMAIN t1 = DOMAIN t2
    /\ \A k \in DOMAIN t1 : \A j \in 0..i : t1[k][j] = t2[k][j]

\* C14: no dependence on the future.  A run whose P&L sliders agree with this
\* run's on the periods 1..i and differ only later (all other inputs equal)
\* generates the same line items for the periods 0..i, in each of the three
\* statements.  The other run's tables are what the sections generate from
\* its sliders; the comparison is made when the run has ended.
C14_NoDependenceOnFuture ==
    \A a2 \in PLAssumptions :
        \A i \in 0..2 :
            /\ pc = "idle"
            /\ \/ tab1_status = "generated"
               \/ tab2_status = "generated"
               \/ tab3_status = "generated"
            /\ AgreeUpTo(pl_assumptions, a2, i)
            => \A pl2 \in {ProfitLossForecast(a2)} :
                /\ tab1_status = "generated" =>
                      SamePrefix(profit_loss_data, pl2, i)
                /\ tab2_status = "generated" =>
                      SamePrefix(balance_sheet_data,
                                 BalanceSheetForecast(pl2, bs_assumptions), i)
                /\ tab3_status = "generated" =>
                      \A bs2 \in {BalanceSheetForecast(pl2, bs_assumptions)} :
                          SamePrefix(cash_flow_df,
                                     CashFlowForecast(pl2, bs2,
                                                      cf_args.depreciation_rate), i)

\* a Cash Flow on screen whose P&L sliders agree with another choice up to
\* 2025E and differ from it in 2026E
C14_Witness ==
    /\ pc = "idle"
    /\ tab3_status = "generated"
    /\ \E a2 \in PLAssumptions :
           /\ AgreeUpTo(pl_assumptions, a2, 2)
           /\ a2.revenue_growth_rates[3] # pl_assumptions.revenue_growth_rates[3]
           /\ a2.cost_ratios[3] # pl_assumptions.cost_ratios[3]
           /\ CashFlowForecast(ProfitLossForecast(a2),
                  BalanceSheetForecast(ProfitLossForecast(a2), bs_assumptions),
                  cf_args.depreciation_rate).NetCF[3] # cash_flow_df.NetCF[3]

\* C15: monotonicity in the fixed-asset growth.  Of two Balance Sheets
\* generated from the same P&L with sliders that differ only in the
\* fixed-asset growth (both within 0%..50%), the one with the larger growth
\* has strictly larger Fixed Assets in each of 2024E, 2025E and 2026E, and
\* the same Fixed Assets in 2023A.
C15_FixedAssetGrowthMonotone ==
    is_bs_generated =>
        \A b2 \in BSAssumptions :
            /\ b2 = [bs_assumptions EXCEPT !.fixed_asset_growth = b2.fixed_asset_growth]
            /\ bs_assumptions.fixed_asset_growth < b2.fixed_asset_growth
            /\ b2.fixed_asset_growth <= 500
            => \A bs2 \in {BalanceSheetForecast(bs_source, b2)} :
                /\ bs2.FixedAssets[0] = balance_sheet_data.FixedAssets[0]
                /\ \A i \in ForecastPeriods :
                       bs2.FixedAssets[i] > balance_sheet_data.FixedAssets[i]

\* a stored Balance Sheet generated with 0% growth: the sliders at 20% and at
\* 50% are both larger
C15_Witness ==
    /\ is_bs_generated
    /\ bs_assumptions.fixed_asset_growth = 0
    /\ \E b2 \in BSAssumptions :
           /\ b2 = [bs_assumptions EXCEPT !.fixed_asset_growth = 500]
           /\ BalanceSheetForecast(bs_source, b2).FixedAssets[3] = Amount(54, 0)
    /\ balance_sheet_data.FixedAssets[3] = Amount(16, 0)

\* C16: the capital increase is applied exactly once, in 2024E.  In a stored
\* Balance Sheet Share Capital[1] = Share Capital[0] + capital_increase and
\* Share Capital[3] = Share Capital[2] = Share Capital[1]; in the Cash Flow
\* built from that Balance Sheet Financing CF[1] = capital_increase and
\* Financing CF[2] = Financing CF[3] = 0.
C16_CapitalIncreaseOnce ==
    /\ is_bs_generated =>
          /\ balance_sheet_data.ShareCapital[1] =
                 balance_sheet_data.ShareCapital[0] + bs_assumptions.capital_increase
          /\ balance_sheet_data.ShareCapital[2] = balance_sheet_data.ShareCapital[1]
          /\ balance_sheet_data.ShareCapital[3] = balance_sheet_data.ShareCapital[2]
    /\ cash_flow_df # None =>
          /\ cf_args.bs = balance_sheet_data
          /\ cash_flow_df.FinancingCF[1] = bs_assumptions.capital_increase
          /\ cash_flow_df.FinancingCF[2] = 0
          /\ cash_flow_df.FinancingCF[3] = 0

\* a Cash Flow on screen, built from a Balance Sheet with the default capital
\* increase of 325
C16_Witness ==
    /\ cash_flow_df # None
    /\ bs_assumptions.capital_increase = Amount(325, 0)
    /\ balance_sheet_data.ShareCapital[3] = Amount(1658, 52000)
    /\ cash_flow_df.FinancingCF[1] = Amount(325, 0)

\* C17: cash reconciliation across the statements.  Whenever a Cash Flow is
\* generated from the stored P&L and the Balance Sheet derived from it, the
\* Net Cash Flow of each of 2024E, 2025E, 2026E equals the change of the
\* Balance Sheet's cash, NetCF[i] = Cash[i] - Cash[i-1], whatever the
\* depreciation rate (in exact arithmetic).
C17_CashReconciliation ==
    cash_flow_df # None =>
        /\ cf_args.pl = profit_loss_data
        /\ cf_args.bs = balance_sheet_data
        /\ bs_source = profit_loss_data
        /\ \A i \in ForecastPeriods :
               /\ cash_flow_df.NetCF[i] =
                      balance_sheet_data.Cash[i] - balance_sheet_data.Cash[i - 1]
               /\ \A r \in DepreciationRates :
                      CashFlowForecast(profit_loss_data, balance_sheet_data, r).NetCF[i]
                          = cash_flow_df.NetCF[i]

\* a Cash Flow on screen generated with a depreciation rate of 10.5% from the
\* default P&L and Balance Sheet: cash goes from 1260 to 1825.4, and the
\* depreciation of 2.016 sits in the operating and investing flows of 2024E
C17_Witness ==
    /\ cash_flow_df # None
    /\ cf_args.depreciation_rate = 105
    /\ pl_assumptions = DefaultPLAssumptions
    /\ bs_assumptions = DefaultBSAssumptions
    /\ balance_sheet_data.Cash[0] = Amount(1260, 0)
    /\ balance_sheet_data.Cash[1] = Amount(1825, 40000)
    /\ cash_flow_df.NetCF[1] = Amount(565, 40000)
    /\ cash_flow_df.InvestingCF[1] =
           0 - (Amount(3, 20000) + Amount(2, 1600))

\* C18: session-state consistency.  In every reachable state is_bs_generated
\* implies is_pl_generated and each flag is true exactly when its table is not
\* None; a run in which Reset All Data was clicked ends with both flags false
\* and both tables None; and while no P&L is stored the buttons of the
\* Balance Sheet and Cash Flow sections are not drawn and nothing is
\* generated by them.
C18_SessionStateConsistent ==
    /\ [](/\ is_bs_generated => is_pl_generated
          /\ is_pl_generated <=> profit_loss_data # None
          /\ is_bs_generated <=> balance_sheet_data # None)
    /\ [][/\ pc = "sidebar" /\ button = "reset" =>
                /\ ~is_pl_generated' /\ ~is_bs_generated'
                /\ profit_loss_data' = None /\ balance_sheet_data' = None
          /\ ~is_pl_generated /\ pc = "idle" => button' \notin {"bs", "cf"}
          /\ ~is_pl_generated /\ pc \in {"tab2", "tab3"} =>
                /\ balance_sheet_data' = None /\ ~is_bs_generated'
                /\ cash_flow_df' = None
                /\ ~SectionRan(tab2_status') /\ ~SectionRan(tab3_status')]_vars

\* the end of the run that follows a click on Reset All Data: nothing is
\* stored and both tabs were blocked for the missing P&L
C18_Witness ==
    /\ rerun
    /\ ~is_pl_generated /\ ~is_bs_generated
    /\ profit_loss_data = None /\ balance_sheet_data = None
    /\ pc = "idle"
    /\ tab2_status = "info_pl_first"
    /\ tab3_status = "info_pl_first"

====
